---- MODULE Spec2Model ----
\* The unpack orchestration of packages/unpacker/src/unpack.js:
\* _unpackWxapkg (discovery and the doNext pipeline) and unpackWxapkg (the
\* processed/completed hooks, subpackage realignment, main-package merge,
\* plugin injection, config write).  The archive decoder (doFile of wuWxapkg)
\* and the filesystem helpers (module utils) are not part of unpack.js; they
\* are modelled from their description in the specification.
EXTENDS Integers, Sequences, FiniteSets, TLC

VARIABLES
  fs,               \* the output tree: file path -> content (a sequence of lines)
  mainPackage,      \* global.mainPackage: a directory path, <<>> when not set
  subPackageInfo,   \* global.subPackageInfo: a request record, NoInfo when not set
  existsPlugin,     \* global.existsPlugin
  filteredPackages, \* the processing queue of the running _unpackWxapkg call
  processedName,    \* the popped-but-unannounced candidate, Null when none
  seenSet,          \* unpackWxapkg's seenSet
  processedList,    \* unpackWxapkg's processedList
  inflight,         \* decoder calls that have not invoked their continuation yet
  log,              \* the events of the current call, in the order the code performs them
  threw,            \* an exception escaped the current call
  phase,            \* "idle" | "running" | "finished"
  callArgs,         \* the arguments of the current call
  fsAtCompleted,    \* the output tree as it was when the completed hook was entered
  calls             \* number of top-level calls made so far

vars == <<fs, mainPackage, subPackageInfo, existsPlugin, filteredPackages,
          processedName, seenSet, processedList, inflight, log, threw, phase,
          callArgs, fsAtCompleted, calls>>

(*************************** bounds ****************************************)
MaxEntries == 3
MaxLaterEntries == 1
MaxTransformLen == 2
MaxCalls == 2

(*************************** values ****************************************)
Null == "<null>"
Undefined == "<undefined>"
\* JavaScript truthiness of a name: null, undefined and the empty string are falsy
Falsy(x) == x \in {Null, Undefined, ""}

ArchiveExt == "wxapkg"
AppPkg == "app.wxapkg"
Sub1Pkg == "sub1.wxapkg"
Sub2Pkg == "sub2.wxapkg"
FwkPkg == "WeChatAppExService.wxapkg"
NotePath == "notes.txt"
DirEntries == {AppPkg, Sub1Pkg, Sub2Pkg, FwkPkg, NotePath}

\* utils.getFilenameExt(name): the extension without the dot
getFilenameExt(name) ==
  IF name \in {AppPkg, Sub1Pkg, Sub2Pkg, FwkPkg} THEN ArchiveExt
  ELSE IF name = NotePath THEN "txt" ELSE ""

\* utils.checkIsFramework(name)
checkIsFramework(name) == name = FwkPkg

\* p.replace(utils.getFilenameExt(p, false), ''): the archive path with the
\* extension stripped, as a directory path
unpackedDirOf(p) ==
  CASE p = AppPkg -> <<"app">>
    [] p = Sub1Pkg -> <<"sub1">>
    [] p = Sub2Pkg -> <<"sub2">>
    [] p = FwkPkg -> <<"WeChatAppExService">>
    [] p = NotePath -> <<"notes">>
    [] OTHER -> <<>>

NoInfo == [gameJS |-> <<>>, gameJSDir |-> <<>>, packageDir |-> <<>>]
SplitEntry == <<"split", "game.js">>
Targets == {<<"app">>, <<"app", "pkg">>}
InvalidLine == "invalid"
RequireLine == "require(\"./plugin\");"
ConfigName == "project.private.config.json"
ConfigJSON == <<"{", "description", "setting", "urlCheck:false", "}">>

Ev(e, a) == [ev |-> e, arg |-> a]

\* a directory path as it is printed in the log
DirName(d) ==
  CASE d = <<"app">> -> "app"
    [] d = <<"app", "pkg">> -> "app/pkg"
    [] OTHER -> "?"

(*************************** filesystem helpers ****************************)
EmptyFs == [p \in {} |-> <<>>]
\* output left behind by an earlier run of the tool
StaleFs == [p \in {<<"sub1", "old.js">>} |-> <<"old">>]

IsPrefix(d, p) == Len(d) <= Len(p) /\ SubSeq(p, 1, Len(d)) = d
Rel(d, p) == SubSeq(p, Len(d) + 1, Len(p))

\* utils.deepListDir(dir): every file under dir (none when dir does not exist)
deepListDir(f, dir) == {p \in DOMAIN f : IsPrefix(dir, p) /\ Len(p) > Len(dir)}

existsSync(f, p) == \E q \in DOMAIN f : IsPrefix(p, q)

\* fs.rmdirSync(dir, {recursive: true})
rmdirSync(f, dir) == [p \in {q \in DOMAIN f : ~IsPrefix(dir, q)} |-> f[p]]

writeFileSync(f, p, content) == [q \in DOMAIN f \cup {p} |-> IF q = p THEN content ELSE f[q]]

IsValidLine(l) == l # InvalidLine

\* utils.removeInvalidLine(oldFile, newFile): write oldFile's valid lines to newFile
removeInvalidLine(f, oldFile, newFile) ==
  writeFileSync(f, newFile, SelectSeq(f[oldFile], IsValidLine))

\* utils.renameFileSync(from, to): move a file, creating the parent directories
renameFileSync(f, from, to) ==
  [q \in (DOMAIN f \ {from}) \cup {to} |-> IF q = to THEN f[from] ELSE f[q]]

\* utils.cleanAlreadyUnpacked(name): remove the previously unpacked output of name
cleanAlreadyUnpacked(f, name) == rmdirSync(f, unpackedDirOf(name))

(*************************** the state as one value ************************)
State ==
  [fs |-> fs, mainPackage |-> mainPackage, subPackageInfo |-> subPackageInfo,
   existsPlugin |-> existsPlugin, filteredPackages |-> filteredPackages,
   processedName |-> processedName, seenSet |-> seenSet,
   processedList |-> processedList, inflight |-> inflight, log |-> log,
   threw |-> threw, phase |-> phase, callArgs |-> callArgs,
   fsAtCompleted |-> fsAtCompleted]

Logged(st, e, a) == [st EXCEPT !.log = Append(@, Ev(e, a))]

(*************************** unpackWxapkg's helpers ************************)
\* the relocation with the path taken relative to the split root
RECURSIVE relocateFilesFromSplitRoot(_, _, _, _)
relocateFilesFromSplitRoot(f, files, gameJSDir, packageDir) ==
  IF files = {} THEN f
  ELSE LET oldFile == CHOOSE p \in files : TRUE
           file == Tail(Rel(gameJSDir, oldFile))
           newFile == packageDir \o file
       IN relocateFilesFromSplitRoot(removeInvalidLine(f, oldFile, newFile),
                                     files \ {oldFile}, gameJSDir, packageDir)


\* the forEach of moveSubPackage: relocate every file of the split root
RECURSIVE relocateFiles(_, _, _, _)
relocateFiles(f, files, gameJSDir, packageDir) ==
  IF files = {} THEN f
  ELSE LET oldFile == CHOOSE p \in files : TRUE
           file == Rel(gameJSDir, oldFile)
           newFile == packageDir \o file
       IN relocateFiles(removeInvalidLine(f, oldFile, newFile),
                        files \ {oldFile}, gameJSDir, packageDir)

\* the seenSet test left out
moveSubPackageNoSeenCheck(st, info) ==
  IF info = NoInfo THEN st
  ELSE LET splitedDir == info.gameJSDir \o <<Head(info.gameJS)>>
       IN IF ~existsSync(st.fs, info.gameJSDir \o info.gameJS) THEN st
          ELSE LET moved == relocateFiles(st.fs, deepListDir(st.fs, splitedDir),
                                          info.gameJSDir, info.packageDir)
               IN [Logged(st, "realigned", DirName(info.packageDir)) EXCEPT
                     !.fs = rmdirSync(moved, splitedDir),
                     !.seenSet = @ \cup {info.packageDir}]

moveSubPackage(st, info) ==
  IF info = NoInfo THEN st
  ELSE IF info.packageDir \in st.seenSet THEN Logged(st, "already processed", DirName(info.packageDir))
  ELSE LET splitedDir == info.gameJSDir \o <<Head(info.gameJS)>>
       IN IF ~existsSync(st.fs, info.gameJSDir \o info.gameJS) THEN st
          ELSE LET moved == relocateFiles(st.fs, deepListDir(st.fs, splitedDir),
                                          info.gameJSDir, info.packageDir)
               IN [Logged(st, "realigned", DirName(info.packageDir)) EXCEPT
                     !.fs = rmdirSync(moved, splitedDir),
                     !.seenSet = @ \cup {info.packageDir}]

\* the inner forEach of handleMainPackage: move every file of unpackedDir
RECURSIVE moveFiles(_, _, _, _)
moveFiles(f, files, unpackedDir, mp) ==
  IF files = {} THEN f
  ELSE LET file == CHOOSE p \in files : TRUE
           fileShort == Rel(unpackedDir, file)
       IN moveFiles(renameFileSync(f, file, mp \o fileShort),
                    files \ {file}, unpackedDir, mp)

\* the path-equality guard left out
mergeOneNoGuard(st, p, mp) ==
  IF p = Null THEN [st EXCEPT !.threw = TRUE]
  ELSE LET unpackedDir == unpackedDirOf(p)
       IN [Logged(Logged(st, "merge", p), "rmdir", p) EXCEPT
             !.fs = rmdirSync(moveFiles(st.fs, deepListDir(st.fs, unpackedDir),
                                        unpackedDir, mp),
                              unpackedDir)]

\* one iteration of handleMainPackage's processedList.forEach
mergeOne(st, p, mp) ==
  IF p = Null THEN [st EXCEPT !.threw = TRUE]
  ELSE LET unpackedDir == unpackedDirOf(p)
       IN IF unpackedDir = mp THEN st
          ELSE [Logged(Logged(st, "merge", p), "rmdir", p) EXCEPT
                  !.fs = rmdirSync(moveFiles(st.fs, deepListDir(st.fs, unpackedDir),
                                             unpackedDir, mp),
                                   unpackedDir)]

RECURSIVE mergeFrom(_, _, _)
mergeFrom(st, i, mp) ==
  IF i > Len(st.processedList) \/ st.threw THEN st
  ELSE mergeFrom(mergeOne(st, st.processedList[i], mp), i + 1, mp)

handleMainPackage(st, mp) ==
  IF mp = <<>> THEN st ELSE mergeFrom(st, 1, mp)

writeConfig(st, mp) ==
  IF mp = <<>> THEN st
  ELSE [Logged(st, "writeConfig", "") EXCEPT
          !.fs = writeFileSync(@, mp \o <<ConfigName>>, ConfigJSON)]

handlePlugin(st, mp) ==
  IF mp = <<>> THEN st
  ELSE LET mainPackageGameJS == mp \o <<"game.js">>
       IN IF mainPackageGameJS \notin DOMAIN st.fs THEN [st EXCEPT !.threw = TRUE]
          ELSE [Logged(st, "handlePlugin", "") EXCEPT
                  !.fs = writeFileSync(@, mainPackageGameJS,
                                       <<RequireLine>> \o st.fs[mainPackageGameJS])]

(*************************** unpackWxapkg's hooks **************************)
\* the old output removed only when cleanOld is given as true
beforeProcessOnlyIfTrue(st, name) ==
  LET s1 == Logged(st, "beforeProcess", name)
  IN IF st.callArgs.cleanOld # "true" THEN s1
     ELSE [s1 EXCEPT !.fs = cleanAlreadyUnpacked(@, name)]

\* lines 148-153: nothing when cleanOld is false, else cleanAlreadyUnpacked
\* and the debug line when an old package was there
beforeProcess(st, name) ==
  LET s1 == Logged(st, "beforeProcess", name)
      oldPackage == existsSync(st.fs, unpackedDirOf(name))
      s2 == [s1 EXCEPT !.fs = cleanAlreadyUnpacked(@, name)]
  IN IF st.callArgs.cleanOld = "false" THEN s1
     ELSE IF oldPackage THEN Logged(s2, "cleaned", name)
     ELSE s2

processed(st, name) ==
  LET s1 == [Logged(st, "processed", name) EXCEPT !.processedList = Append(@, name)]
  IN IF s1.subPackageInfo # NoInfo
       THEN [moveSubPackage(s1, s1.subPackageInfo) EXCEPT !.subPackageInfo = NoInfo]
     ELSE IF s1.mainPackage # <<>>
       THEN [s1 EXCEPT !.seenSet = @ \cup {s1.mainPackage}]
     ELSE s1

callback(st, arg) == Logged(st, "callback", arg)

\* the config written before the merge
completedConfigFirst(st, arg) ==
  LET s0 == [Logged(st, "completed", arg) EXCEPT !.fsAtCompleted = st.fs]
      mp == s0.mainPackage
  IN IF mp = <<>> THEN callback(s0, arg)
     ELSE LET s1 == writeConfig(s0, mp)
              s2 == handleMainPackage(s1, mp)
              s3 == IF s2.threw \/ ~s2.existsPlugin THEN s2 ELSE handlePlugin(s2, mp)
          IN IF s3.threw THEN s3 ELSE callback(s3, arg)

\* the callback forgotten on the path without a main package
completedNoCallbackWithoutMain(st, arg) ==
  LET s0 == [Logged(st, "completed", arg) EXCEPT !.fsAtCompleted = st.fs]
      mp == s0.mainPackage
  IN IF mp = <<>> THEN s0
     ELSE LET s1 == handleMainPackage(s0, mp)
              s2 == IF s1.threw \/ ~s1.existsPlugin THEN s1 ELSE handlePlugin(s1, mp)
              s3 == IF s2.threw THEN s2 ELSE writeConfig(s2, mp)
          IN IF s3.threw THEN s3 ELSE callback(s3, arg)

completed(st, arg) ==
  LET s0 == [Logged(st, "completed", arg) EXCEPT !.fsAtCompleted = st.fs]
      mp == s0.mainPackage
  IN IF mp = <<>> THEN callback(s0, arg)
     ELSE LET s1 == handleMainPackage(s0, mp)
              s2 == IF s1.threw \/ ~s1.existsPlugin THEN s1 ELSE handlePlugin(s1, mp)
              s3 == IF s2.threw THEN s2 ELSE writeConfig(s2, mp)
          IN IF s3.threw THEN s3 ELSE callback(s3, arg)

(*************************** the decoder ***********************************)
\* doFile(name, cb, order, beforeProcess): the decoder accepts the archive; it
\* calls beforeProcess and the continuation later
doFile(st, name) ==
  [Logged(st, "doFile", name) EXCEPT
     !.inflight = Append(@, [name |-> name, stage |-> "accepted"])]

(*************************** _unpackWxapkg *********************************)
\* an empty list taken for no return value
invokeHookEmptyAsNothing(fnPresent, result, resultTruthy, arg0) ==
  IF ~fnPresent THEN arg0
  ELSE IF resultTruthy /\ result # <<>> THEN result
  ELSE arg0

\* lines 17-21: the hook's result when it is truthy (any array is), else the
\* first argument
invokeHook(fnPresent, result, resultTruthy, arg0) ==
  IF ~fnPresent THEN arg0 ELSE IF resultTruthy THEN result ELSE arg0

Finished(st) == [st EXCEPT !.phase = "finished"]

\* the end of the queue not reported
doNextNoCompleted(st) ==
  LET q == st.filteredPackages
      name == IF q = <<>> THEN Undefined ELSE q[Len(q)]
      s0 == [st EXCEPT !.filteredPackages = IF q = <<>> THEN q ELSE SubSeq(q, 1, Len(q) - 1)]
  IN IF Falsy(name)
       THEN processed(s0, s0.processedName)
     ELSE LET s1 == IF ~Falsy(s0.processedName) THEN processed(s0, s0.processedName) ELSE s0
              s2 == [s1 EXCEPT !.processedName = name]
          IN doFile(s2, name)


\* the queue consumed from the head
doNextFifo(st) ==
  LET q == st.filteredPackages
      name == IF q = <<>> THEN Undefined ELSE q[1]
      s0 == [st EXCEPT !.filteredPackages = IF q = <<>> THEN q ELSE Tail(q)]
  IN IF Falsy(name)
       THEN Finished(completed(processed(s0, s0.processedName), "true"))
     ELSE LET s1 == IF ~Falsy(s0.processedName) THEN processed(s0, s0.processedName) ELSE s0
              s2 == [s1 EXCEPT !.processedName = name]
          IN doFile(s2, name)

\* doNext() called right after doFile instead of being passed as its continuation
RECURSIVE doNextEager(_)
doNextEager(st) ==
  LET q == st.filteredPackages
      name == IF q = <<>> THEN Undefined ELSE q[Len(q)]
      s0 == [st EXCEPT !.filteredPackages = IF q = <<>> THEN q ELSE SubSeq(q, 1, Len(q) - 1)]
  IN IF st.phase = "finished" THEN st
     ELSE IF Falsy(name)
       THEN Finished(completed(processed(s0, s0.processedName), "true"))
     ELSE LET s1 == IF ~Falsy(s0.processedName) THEN processed(s0, s0.processedName) ELSE s0
              s2 == [s1 EXCEPT !.processedName = name]
          IN doNextEager(doFile(s2, name))

\* the tail read without being removed
doNextPeek(st) ==
  LET q == st.filteredPackages
      name == IF q = <<>> THEN Undefined ELSE q[Len(q)]
      s0 == st
  IN IF Falsy(name)
       THEN Finished(completed(processed(s0, s0.processedName), "true"))
     ELSE LET s1 == IF ~Falsy(s0.processedName) THEN processed(s0, s0.processedName) ELSE s0
              s2 == [s1 EXCEPT !.processedName = name]
          IN doFile(s2, name)

\* the previous candidate announced only after the next decode was started
doNextAnnounceLate(st) ==
  LET q == st.filteredPackages
      name == IF q = <<>> THEN Undefined ELSE q[Len(q)]
      s0 == [st EXCEPT !.filteredPackages = IF q = <<>> THEN q ELSE SubSeq(q, 1, Len(q) - 1)]
  IN IF Falsy(name)
       THEN Finished(completed(processed(s0, s0.processedName), "true"))
     ELSE LET s1 == doFile(s0, name)
              s2 == IF ~Falsy(s1.processedName) THEN processed(s1, s1.processedName) ELSE s1
          IN [s2 EXCEPT !.processedName = name]

doNext(st) ==
  LET q == st.filteredPackages
      name == IF q = <<>> THEN Undefined ELSE q[Len(q)]
      s0 == [st EXCEPT !.filteredPackages = IF q = <<>> THEN q ELSE SubSeq(q, 1, Len(q) - 1)]
  IN IF Falsy(name)
       THEN Finished(completed(processed(s0, s0.processedName), "true"))
     ELSE LET s1 == IF ~Falsy(s0.processedName) THEN processed(s0, s0.processedName) ELSE s0
              s2 == [s1 EXCEPT !.processedName = name]
          IN doFile(s2, name)

\* line 30: the candidate paths of an existing root, before filtering
packagesOf(a) == IF a.root # "dir" THEN <<a.filePath>> ELSE a.entries

\* the framework test left out of the filter
keepPackageKeepsFramework(a, name) == getFilenameExt(name) = ArchiveExt


\* the predicate of packages.filter
keepPackage(a, name) ==
  IF getFilenameExt(name) # ArchiveExt THEN FALSE
  ELSE IF ~a.filterableWxFwk THEN TRUE
  ELSE ~checkIsFramework(name)

\* invokeHook(beforeUnpack, packages.filter(...)): the queue of the call
filteredPackagesOf(a) ==
  LET keep(name) == keepPackage(a, name)
  IN invokeHook(a.beforeUnpack.kind # "absent", a.beforeUnpack.list,
                a.beforeUnpack.kind = "list", SelectSeq(packagesOf(a), keep))

\* a missing root reported as a success
_unpackWxapkgMissingAsSuccess(st, a) ==
  IF a.root = "missing" THEN Finished(completed(st, "true"))
  ELSE LET fp == filteredPackagesOf(a)
           s1 == IF a.beforeUnpack.kind = "absent" THEN st
                 ELSE Logged(st, "beforeUnpack", "")
       IN IF Len(fp) = 0 THEN Finished(completed(s1, Undefined))
          ELSE doNext([s1 EXCEPT !.filteredPackages = fp])

\* the empty-queue exit left out
_unpackWxapkgNoLengthCheck(st, a) ==
  IF a.root = "missing" THEN Finished(completed(st, Undefined))
  ELSE LET fp == filteredPackagesOf(a)
           s1 == IF a.beforeUnpack.kind = "absent" THEN st
                 ELSE Logged(st, "beforeUnpack", "")
       IN doNext([s1 EXCEPT !.filteredPackages = fp])

\* lines 23-58: the filter, the beforeUnpack transform, the early exits and
\* the first doNext()
_unpackWxapkg(st, a) ==
  IF a.root = "missing" THEN Finished(completed(st, Undefined))
  ELSE LET fp == filteredPackagesOf(a)
           s1 == IF a.beforeUnpack.kind = "absent" THEN st
                 ELSE Logged(st, "beforeUnpack", "")
       IN IF Len(fp) = 0 THEN Finished(completed(s1, Undefined))
          ELSE doNext([s1 EXCEPT !.filteredPackages = fp])

\* unpackWxapkg(filePath, options): fresh seenSet and processedList, then
\* _unpackWxapkg with the three hooks
unpackWxapkg(st, a) ==
  _unpackWxapkg([st EXCEPT !.seenSet = {}, !.processedList = <<>>,
                           !.processedName = Null, !.filteredPackages = <<>>,
                           !.log = <<>>, !.threw = FALSE, !.phase = "running",
                           !.fsAtCompleted = EmptyFs,
                           !.callArgs = a], a)

(*************************** the decoder's completion **********************)
\* what an archive unpacks to, relative to its unpack directory
ArchiveFiles(name) ==
  CASE name = AppPkg -> [p \in {<<"game.js">>, <<"common.js">>} |-> <<"app">>]
    [] name = Sub1Pkg -> [p \in {<<"s1.js">>, <<"common.js">>} |-> <<"sub1">>]
    [] name = Sub2Pkg -> [p \in {<<"s2.js">>} |-> <<"sub2">>]
    [] name = FwkPkg -> [p \in {<<"fw.js">>} |-> <<"fwk">>]
    [] OTHER -> EmptyFs

NoReport == [plugin |-> FALSE, req |-> NoInfo, script |-> FALSE]

\* what a decode may report besides its files
Reports(name) ==
  IF name = AppPkg THEN {[NoReport EXCEPT !.plugin = b] : b \in BOOLEAN}
  ELSE IF name \in {Sub1Pkg, Sub2Pkg}
    THEN {NoReport} \cup
         {[plugin |-> FALSE, script |-> b,
           req |-> [gameJS |-> SplitEntry, gameJSDir |-> unpackedDirOf(name),
                    packageDir |-> t]] : t \in Targets, b \in BOOLEAN}
  ELSE {NoReport}

\* the decoder finishes one archive: its files are written under the unpack
\* directory and the globals it reports are set
decode(st, name, rep) ==
  LET dir == unpackedDirOf(name)
      files == ArchiveFiles(name)
      split == IF rep.req # NoInfo /\ rep.script THEN {dir \o SplitEntry} ELSE {}
      out == {dir \o r : r \in DOMAIN files} \cup split
      s1 == IF rep.plugin THEN Logged(st, "existsPlugin", name) ELSE st
      s2 == IF rep.req # NoInfo
              THEN Logged(s1, IF rep.script THEN "subPackageInfo" ELSE "subPackageInfo, no script",
                          DirName(rep.req.packageDir))
            ELSE s1
  IN [s2 EXCEPT
        !.fs = [q \in DOMAIN st.fs \cup out |->
                  IF q \in split THEN <<InvalidLine, "split">>
                  ELSE IF q \in out THEN files[Rel(dir, q)]
                  ELSE st.fs[q]],
        !.mainPackage = IF name = AppPkg THEN dir ELSE @,
        !.existsPlugin = IF rep.plugin THEN TRUE ELSE @,
        !.subPackageInfo = IF rep.req # NoInfo THEN rep.req ELSE @]

RemoveAt(s, i) == SubSeq(s, 1, i - 1) \o SubSeq(s, i + 1, Len(s))

(*************************** actions ***************************************)
RECURSIVE SeqsUpTo(_, _)
SeqsUpTo(S, n) ==
  IF n = 0 THEN {<<>>}
  ELSE LET shorter == SeqsUpTo(S, n - 1)
       IN shorter \cup {Append(s, x) : s \in shorter, x \in S}

IsInjective(s) == \A i, j \in 1..Len(s) : s[i] = s[j] => i = j

\* directory listings: distinct entries, in any order
Listings(n) == {s \in SeqsUpTo(DirEntries, n) : IsInjective(s)}

NoTransform == [kind |-> "absent", list |-> <<>>]
TransformNames == {AppPkg, Sub1Pkg, ""}
Transforms ==
  {[kind |-> "void", list |-> <<>>]} \cup
  {[kind |-> "list", list |-> l] : l \in SeqsUpTo(TransformNames, MaxTransformLen)}

EntryBound == IF calls = 0 THEN MaxEntries ELSE MaxLaterEntries

RootDir == "pkgs"
CleanOldValues == {"true", "false", Undefined}

\* a root path: missing, one file, or a directory with its listing
Roots(n) ==
  {[root |-> "missing", filePath |-> RootDir, entries |-> <<>>]} \cup
  {[root |-> "file", filePath |-> f, entries |-> <<>>] : f \in DirEntries} \cup
  {[root |-> "dir", filePath |-> RootDir, entries |-> l] : l \in Listings(n)}

Assign(st) ==
  /\ fs' = st.fs
  /\ mainPackage' = st.mainPackage
  /\ subPackageInfo' = st.subPackageInfo
  /\ existsPlugin' = st.existsPlugin
  /\ filteredPackages' = st.filteredPackages
  /\ processedName' = st.processedName
  /\ seenSet' = st.seenSet
  /\ processedList' = st.processedList
  /\ inflight' = st.inflight
  /\ log' = st.log
  /\ threw' = st.threw
  /\ phase' = st.phase
  /\ callArgs' = st.callArgs
  /\ fsAtCompleted' = st.fsAtCompleted

CanCall == phase # "running" /\ inflight = <<>> /\ calls < MaxCalls

\* a caller runs unpackWxapkg(filePath, {cleanOld, callback})
CallUnpackWxapkg ==
  /\ CanCall
  /\ \E r \in Roots(EntryBound), c \in CleanOldValues :
       Assign(unpackWxapkg(State,
                [entry |-> "unpackWxapkg", root |-> r.root, filePath |-> r.filePath,
                 entries |-> r.entries,
                 filterableWxFwk |-> TRUE, beforeUnpack |-> NoTransform, cleanOld |-> c]))
  /\ calls' = calls + 1

\* the pipeline run with the options unpackWxapkg does not pass:
\* filterableWxFwk and a beforeUnpack transform (explored for a first call)
CallWithOptions ==
  /\ CanCall /\ calls = 0
  /\ \E r \in Roots(MaxLaterEntries), t \in Transforms \cup {NoTransform}, w \in BOOLEAN :
       /\ t = NoTransform => ~w
       /\ Assign(unpackWxapkg(State,
                   [entry |-> "_unpackWxapkg", root |-> r.root, filePath |-> r.filePath,
                    entries |-> r.entries,
                    filterableWxFwk |-> w, beforeUnpack |-> t, cleanOld |-> "true"]))
  /\ calls' = calls + 1

\* the decoder calls the beforeProcess adapter of an accepted archive
DecoderBegin ==
  \E i \in 1..Len(inflight) :
    /\ inflight[i].stage = "accepted"
    /\ Assign([beforeProcess(State, inflight[i].name) EXCEPT
                 !.inflight[i].stage = "running"])
    /\ UNCHANGED calls

\* the decoder finishes an archive and invokes its continuation, doNext
DecoderFinish ==
  \E i \in 1..Len(inflight) :
    /\ inflight[i].stage = "running"
    /\ \E rep \in Reports(inflight[i].name) :
         Assign(doNext([decode(State, inflight[i].name, rep) EXCEPT
                          !.inflight = RemoveAt(@, i)]))
    /\ UNCHANGED calls

Init ==
  /\ fs \in {EmptyFs, StaleFs}
  /\ mainPackage = <<>>
  /\ subPackageInfo = NoInfo
  /\ existsPlugin = FALSE
  /\ filteredPackages = <<>>
  /\ processedName = Null
  /\ seenSet = {}
  /\ processedList = <<>>
  /\ inflight = <<>>
  /\ log = <<>>
  /\ threw = FALSE
  /\ phase = "idle"
  /\ callArgs = [entry |-> "none", root |-> "missing", filePath |-> RootDir,
                 entries |-> <<>>,
                 filterableWxFwk |-> TRUE, beforeUnpack |-> NoTransform,
                 cleanOld |-> "true"]
  /\ fsAtCompleted = EmptyFs
  /\ calls = 0

Next == CallUnpackWxapkg \/ CallWithOptions \/ DecoderBegin \/ DecoderFinish

Spec == Init /\ [][Next]_vars

(*************************** reading the log *******************************)
Started == phase # "idle"
Queue == filteredPackagesOf(callArgs)
RootFound == callArgs.root # "missing"

Reverse(s) == [i \in 1..Len(s) |-> s[Len(s) + 1 - i]]
IsPrefixSeq(s, t) == Len(s) <= Len(t) /\ SubSeq(t, 1, Len(s)) = s
Idx(e) == {i \in DOMAIN log : log[i].ev = e}
Count(e) == Cardinality(Idx(e))
EvArgs(e) ==
  LET Is(x) == x.ev = e
      sel == SelectSeq(log, Is)
  IN [i \in 1..Len(sel) |-> sel[i].arg]

ArchivePathsOnly == \A i \in 1..Len(Queue) : getFilenameExt(Queue[i]) = ArchiveExt
NoArchiveEntries ==
  \A i \in 1..Len(packagesOf(callArgs)) :
     getFilenameExt(packagesOf(callArgs)[i]) # ArchiveExt

(*************************** C1 ********************************************)
\* C1: for a queue of N >= 1 archive paths the processed hook fires once per
\* candidate, in the reverse of the queue order (never out of that order
\* while the run lasts, N times when it has ended), and completed fires
\* exactly once, after every processed, with the argument true.
C1_ProcessedReverseThenCompleted ==
  (Started /\ RootFound /\ Len(Queue) >= 1 /\ ArchivePathsOnly) =>
    /\ IsPrefixSeq(EvArgs("processed"), Reverse(Queue))
    /\ phase = "running" => Count("completed") = 0
    /\ phase = "finished" =>
         /\ EvArgs("processed") = Reverse(Queue)
         /\ EvArgs("completed") = <<"true">>
         /\ \A i \in Idx("processed"), j \in Idx("completed") : i < j

C1_Witness ==
  /\ phase = "finished" /\ RootFound /\ ArchivePathsOnly
  /\ Len(Queue) = 3
  /\ EvArgs("processed") = Reverse(Queue)
  /\ Count("completed") = 1

C1_WitnessSingle ==
  /\ phase = "finished" /\ RootFound /\ Queue = <<AppPkg>>
  /\ EvArgs("processed") = <<AppPkg>>

(*************************** C2 ********************************************)
\* C2: when the root path does not exist, completed fires exactly once and
\* without an argument, the decoder is never invoked and none of
\* beforeUnpack, beforeProcess, processed fires.
C2_MissingRootCompletesOnce ==
  (Started /\ ~RootFound) =>
    /\ phase = "finished"
    /\ EvArgs("completed") = <<Undefined>>
    /\ Count("doFile") = 0 /\ inflight = <<>>
    /\ Count("beforeUnpack") = 0
    /\ Count("beforeProcess") = 0
    /\ Count("processed") = 0

C2_Witness == Started /\ ~RootFound /\ Count("completed") = 1

(*************************** C3 ********************************************)
EarlyExit ==
  /\ phase = "finished"
  /\ EvArgs("completed") = <<Undefined>>
  /\ Count("processed") = 0
  /\ Count("doFile") = 0 /\ inflight = <<>>

\* C3 as stated: a root that exists and holds no entry with the archive
\* extension ends with one completed without argument, no processed, no decode.
C3_AsStated == (Started /\ RootFound /\ NoArchiveEntries) => EarlyExit

\* C3 amended: the same, provided no beforeUnpack transform replaces the
\* empty filtered list by a non-empty one.
C3_NoArchiveEntriesEarlyExit ==
  (Started /\ RootFound /\ NoArchiveEntries /\ callArgs.beforeUnpack.list = <<>>)
    => EarlyExit

C3_Witness ==
  /\ Started /\ callArgs.root = "dir" /\ Len(packagesOf(callArgs)) >= 1
  /\ NoArchiveEntries /\ callArgs.beforeUnpack.list = <<>>
  /\ Count("completed") = 1

(*************************** C4 ********************************************)
\* C4: at most one candidate is in flight in the decoder, and it is the one
\* popped last; the next decode is started only by the step in which the
\* previous one finished.
C4_OneInFlight ==
  /\ Len(inflight) <= 1
  /\ inflight # <<>> => (phase = "running" /\ inflight[1].name = processedName)
  /\ Count("doFile") <= Count("processed") + 1

C4_Witness == Len(inflight) = 1 /\ Count("doFile") = 3

(*************************** C5 ********************************************)
\* C5: the queue only shrinks from the tail and every popped candidate is
\* handed to the decoder at most once: the decoded names are, in order, a
\* prefix of the popped tail of the initial queue read backwards.
C5_DecodedAtMostOnce ==
  (Started /\ RootFound) =>
    LET k == Len(filteredPackages)
    IN /\ k <= Len(Queue)
       /\ filteredPackages = SubSeq(Queue, 1, k)
       /\ IsPrefixSeq(EvArgs("doFile"), Reverse(SubSeq(Queue, k + 1, Len(Queue))))

C5_Witness ==
  /\ phase = "finished" /\ Len(Queue) = 3 /\ filteredPackages = <<>>
  /\ EvArgs("doFile") = Reverse(Queue)

(*************************** C6 ********************************************)
PrevDoFile(j) == CHOOSE i \in Idx("doFile") : i < j /\ \A m \in Idx("doFile") : m < j => m <= i

\* C6: between the decoder calls for consecutive candidates k and k+1 the
\* processed hook for k runs, with its realignment; no request is pending
\* while a decode is in flight.
C6_ProcessedBeforeNextDecode ==
  /\ \A j \in Idx("doFile") :
       (\E i \in Idx("doFile") : i < j) =>
         \E k \in (PrevDoFile(j) + 1)..(j - 1) :
           log[k].ev = "processed" /\ log[k].arg = log[PrevDoFile(j)].arg
  /\ \A j \in Idx("realigned") \cup Idx("already processed") : log[j - 1].ev = "processed"
  /\ inflight # <<>> => subPackageInfo = NoInfo

C6_Witness ==
  \E i, j \in Idx("doFile"), k \in Idx("realigned") : i < k /\ k < j

(*************************** C7 ********************************************)
\* the states in which the processed hook is about to hand a request to
\* moveSubPackage: a running decode finishes and reports the request
RequestStates ==
  UNION {{[st |-> decode(State, inflight[i].name, rep), info |-> rep.req] :
            rep \in {r \in Reports(inflight[i].name) : r.req # NoInfo}} :
         i \in {j \in DOMAIN inflight : inflight[j].stage = "running"}}

\* C7: once moveSubPackage has relocated the split content for a target, a
\* further moveSubPackage call for that target changes neither the files nor
\* seenSet, and no target is relocated twice in one call of unpackWxapkg.
C7_RealignIdempotent ==
  /\ \A r \in RequestStates :
       (\E i \in Idx("realigned") : log[i].arg = DirName(r.info.packageDir)) =>
         LET after == moveSubPackage(r.st, r.info)
         IN after.fs = r.st.fs /\ after.seenSet = r.st.seenSet
  /\ \A i, j \in Idx("realigned") : log[i].arg = log[j].arg => i = j

C7_Witness ==
  \E i \in Idx("realigned"), j \in Idx("already processed") :
    /\ i < j /\ log[i].arg = log[j].arg
    /\ existsSync(fs, <<"sub1">> \o SplitEntry) \/ existsSync(fs, <<"sub2">> \o SplitEntry)

(*************************** C8 ********************************************)
Range(s) == {s[i] : i \in DOMAIN s}
MergeCase == phase = "finished" /\ mainPackage # <<>> /\ ~threw /\ Null \notin Range(processedList)

\* the state in which handleMainPackage was called, and the one it returned
PreMerge == [State EXCEPT !.fs = fsAtCompleted, !.log = <<>>]
PostMerge == handleMainPackage(PreMerge, mainPackage)
MergedDirs == {unpackedDirOf(p) : p \in Range(processedList)} \ {mainPackage}
MergedRelPaths == {Rel(d, f) : d \in MergedDirs, f \in UNION {deepListDir(fsAtCompleted, e) : e \in MergedDirs}}
Collides(f) ==
  \E d \in MergedDirs : \E g \in deepListDir(fsAtCompleted, d) :
    Rel(d, g) = Rel(mainPackage, f)

MergeMovesOthersKeepsMain ==
  LET IsOther(p) == unpackedDirOf(p) # mainPackage
      others == SelectSeq(processedList, IsOther)
  IN \* exactly the other unpack directories are merged, in recording order
     /\ EvArgs("merge") = others /\ EvArgs("rmdir") = others
     /\ [i \in 1..Len(PostMerge.log) |-> PostMerge.log[i].arg] =
          [i \in 1..2 * Len(others) |-> others[(i + 1) \div 2]]
     \* their files are under mainPackage afterwards and the directories are gone
     /\ \A d \in MergedDirs :
          /\ deepListDir(PostMerge.fs, d) = {}
          /\ \A f \in deepListDir(fsAtCompleted, d) :
               mainPackage \o Rel(d, f) \in DOMAIN PostMerge.fs
     \* the main package directory is not deleted
     /\ \A f \in deepListDir(fsAtCompleted, mainPackage) : f \in DOMAIN PostMerge.fs

Only(e) == CHOOSE i \in Idx(e) : TRUE
FinalizeCase ==
  /\ phase = "finished" /\ ~threw /\ mainPackage # <<>>
  /\ EvArgs("completed") = <<"true">>

\* C9: after a run that exhausted the queue with a main package known, the
\* log reads: every processed and every decode, then completed, then the
\* merge of every non-main unpack directory, then the plugin injection (iff
\* a plugin was detected), then the config write, then the callback, last.
C9_FinalizationOrder ==
  FinalizeCase =>
    LET c == Only("completed")
        IsOther(p) == unpackedDirOf(p) # mainPackage
    IN /\ \A i \in Idx("processed") \cup Idx("doFile") : i < c
       /\ inflight = <<>>
       /\ EvArgs("merge") = SelectSeq(processedList, IsOther)
       /\ Count("writeConfig") = 1 /\ Count("callback") = 1
       /\ Count("handlePlugin") = (IF existsPlugin THEN 1 ELSE 0)
       /\ \A i \in Idx("merge") \cup Idx("rmdir") :
            /\ c < i /\ i < Only("writeConfig")
            /\ \A j \in Idx("handlePlugin") : i < j
       /\ \A j \in Idx("handlePlugin") : c < j /\ j < Only("writeConfig")
       /\ c < Only("writeConfig")
       /\ Only("writeConfig") < Only("callback")
       /\ Only("callback") = Len(log)

C9_Witness ==
  /\ FinalizeCase /\ existsPlugin
  /\ Count("merge") = 2 /\ Count("handlePlugin") = 1
  /\ fs[mainPackage \o <<ConfigName>>] = ConfigJSON
  /\ Head(fs[mainPackage \o <<"game.js">>]) = RequireLine

(*************************** C10 *******************************************)
ViaUnpackWxapkg == callArgs.entry = "unpackWxapkg"
FullRun == RootFound /\ Len(Queue) >= 1

\* C10: a call of unpackWxapkg invokes the callback exactly once, when the
\* pipeline completes and not before, with the argument completed got: true
\* after a full run, none when the root is missing or no candidate is left.
C10_CallbackExactlyOnce ==
  ViaUnpackWxapkg =>
    /\ phase = "running" => Count("callback") = 0
    /\ phase = "finished" =>
         /\ ~threw
         /\ Count("callback") = 1
         /\ EvArgs("callback") = EvArgs("completed")
         /\ EvArgs("callback") = (IF FullRun THEN <<"true">> ELSE <<Undefined>>)

C10_Witness ==
  /\ ViaUnpackWxapkg /\ phase = "finished" /\ FullRun
  /\ mainPackage # <<>> /\ Count("callback") = 1

C10_WitnessNoMain ==
  /\ ViaUnpackWxapkg /\ phase = "finished" /\ FullRun
  /\ mainPackage = <<>> /\ Count("callback") = 1

C10_WitnessMissingRoot ==
  ViaUnpackWxapkg /\ phase = "finished" /\ ~RootFound /\ Count("callback") = 1

C10_WitnessNoCandidate ==
  /\ ViaUnpackWxapkg /\ phase = "finished" /\ RootFound /\ Len(Queue) = 0
  /\ Count("callback") = 1

(*************************** C11 *******************************************)
MainGameJS == mainPackage \o <<"game.js">>
PluginSetInThisCall == Count("existsPlugin") >= 1

\* C11: in one call of unpackWxapkg the plugin injection runs at most once,
\* after completed and after every step of the merge, and only if a decode of
\* this call reported a plugin; when none did, the entry script of the main
\* package is the same after the finalization as before it.
C11_AsStated ==
  ViaUnpackWxapkg =>
    /\ Count("handlePlugin") <= 1
    /\ \A j \in Idx("handlePlugin") :
         \A i \in Idx("completed") \cup Idx("merge") \cup Idx("rmdir") : i < j
    /\ Count("handlePlugin") >= 1 => PluginSetInThisCall
    /\ (phase = "finished" /\ ~PluginSetInThisCall /\ MainGameJS \in DOMAIN fsAtCompleted) =>
         /\ MainGameJS \in DOMAIN fs
         /\ fs[MainGameJS] = fsAtCompleted[MainGameJS]

(*************************** C12 *******************************************)
\* C12: a call of unpackWxapkg that terminates early (root missing or no
\* candidate left) finalizes nothing, whatever an earlier call has decoded:
\* no merge, no plugin injection, no config write, the files as they were.
C12_AsStated ==
  (ViaUnpackWxapkg /\ phase = "finished" /\ ~FullRun) =>
    /\ Count("merge") = 0 /\ Count("rmdir") = 0
    /\ Count("handlePlugin") = 0
    /\ Count("writeConfig") = 0
    /\ fs = fsAtCompleted

(*************************** C13 *******************************************)
ExpectedCandidates ==
  IF callArgs.root = "file" THEN <<callArgs.filePath>> ELSE callArgs.entries
ExpectedFiltered ==
  LET Kept(n) == /\ getFilenameExt(n) = ArchiveExt
                 /\ callArgs.filterableWxFwk => ~checkIsFramework(n)
  IN SelectSeq(ExpectedCandidates, Kept)
Decoded == EvArgs("doFile")
NoReplacement == callArgs.beforeUnpack.kind # "list"

\* C13: when no transform replaces it, the queue of a call is the candidate
\* list (the root itself for a single file, the listing for a directory, in
\* any order) restricted to the entries with the archive extension and, with
\* filterableWxFwk true, without the framework archives; with filterableWxFwk
\* false the framework archives stay. What is still queued plus what went to
\* the decoder is that list, and an empty one ends the call early.
C13_DiscoveryFilter ==
  (Started /\ RootFound /\ NoReplacement) =>
    /\ phase = "running" => filteredPackages \o Reverse(Decoded) = ExpectedFiltered
    /\ phase = "finished" => Decoded = Reverse(ExpectedFiltered)
    /\ ExpectedFiltered = <<>> => EarlyExit

\* a listing with the framework archive, a non-archive and an archive
C13_Witness ==
  /\ phase = "finished" /\ callArgs.root = "dir" /\ callArgs.filterableWxFwk
  /\ NoReplacement
  /\ Range(callArgs.entries) = {FwkPkg, NotePath, AppPkg}
  /\ Decoded = <<AppPkg>>

\* the framework archive kept with filterableWxFwk false
C13_WitnessKept ==
  /\ phase = "finished" /\ ~callArgs.filterableWxFwk /\ NoReplacement
  /\ Decoded = <<FwkPkg>>

\* a single file as the root
C13_WitnessFile ==
  /\ phase = "finished" /\ callArgs.root = "file" /\ NoReplacement
  /\ Decoded = <<callArgs.filePath>>

(*************************** C14 *******************************************)
\* the queue the claim expects: the transform's list when it returns one,
\* the filtered list otherwise
ExpectedQueue ==
  IF callArgs.beforeUnpack.kind = "list" THEN callArgs.beforeUnpack.list
  ELSE ExpectedFiltered

\* C14: the pipeline works on the list the beforeUnpack transform returns
\* when it returns one, and on the filtered list when the transform is absent
\* or returns nothing: while the run lasts, what is still queued plus what
\* went to the decoder is that list; a transform that returns the empty list
\* ends the call early (completed without argument, no decode).
C14_TransformedQueue ==
  (Started /\ RootFound) =>
    /\ phase = "running" => filteredPackages \o Reverse(Decoded) = ExpectedQueue
    /\ (phase = "finished" /\ ArchivePathsOnly) => Decoded = Reverse(ExpectedQueue)
    /\ ExpectedQueue = <<>> => EarlyExit

\* a transform that replaces one filtered candidate by two others
C14_Witness ==
  /\ phase = "finished"
  /\ callArgs.beforeUnpack.kind = "list"
  /\ ExpectedFiltered = <<Sub2Pkg>>
  /\ Decoded = <<Sub1Pkg, AppPkg>>

\* a transform that returns the empty list for a non-empty filtered list
C14_WitnessEmptyList ==
  /\ callArgs.beforeUnpack.kind = "list" /\ callArgs.beforeUnpack.list = <<>>
  /\ ExpectedFiltered # <<>>
  /\ EarlyExit

\* a transform that returns nothing
C14_WitnessVoid ==
  /\ phase = "finished" /\ callArgs.beforeUnpack.kind = "void"
  /\ Decoded = <<AppPkg>>

(*************************** C15 *******************************************)
\* the step in which the decoder calls the beforeProcess adapter
BeforeProcessStep ==
  /\ inflight # <<>> /\ inflight[1].stage = "accepted"
  /\ inflight' # <<>> /\ inflight'[1].stage = "running"
PendingDir == unpackedDirOf(inflight[1].name)

\* C15: in the beforeProcess step of every candidate, which comes before the
\* decoder writes that candidate's output, a call with cleanOld true or not
\* given removes every file under the candidate's unpack directory and
\* nothing else; a call with cleanOld false removes nothing.
C15_CleanOldBeforeDecode ==
  [][BeforeProcessStep =>
       IF callArgs.cleanOld = "false" THEN fs' = fs
       ELSE /\ deepListDir(fs', PendingDir) = {}
            /\ DOMAIN fs' = DOMAIN fs \ deepListDir(fs, PendingDir)
            /\ \A f \in DOMAIN fs' : fs'[f] = fs[f]]_vars

\* old output removed by a call that does not give cleanOld
C15_Witness ==
  /\ callArgs.cleanOld = Undefined
  /\ Count("cleaned") >= 1
  /\ inflight # <<>> /\ inflight[1].stage = "running"
  /\ deepListDir(fs, PendingDir) = {}

\* old output kept by a call with cleanOld false
C15_WitnessKept ==
  /\ callArgs.cleanOld = "false"
  /\ inflight # <<>> /\ inflight[1].stage = "running"
  /\ deepListDir(fs, PendingDir) # {}

(*************************** C16 *******************************************)
SplitRoot(info) == info.gameJSDir \o <<Head(info.gameJS)>>
ValidLines(content) == SelectSeq(content, IsValidLine)
\* the requests moveSubPackage relocates: target not seen, entry script there
Relocating ==
  {r \in RequestStates :
     /\ r.info.packageDir \notin r.st.seenSet
     /\ (r.info.gameJSDir \o r.info.gameJS) \in DOMAIN r.st.fs}
\* every file of the split root is at base-relative path under the target,
\* line-filtered; the split root is gone; the target is in seenSet
RelocatedRelativeTo(r, base) ==
  LET after == moveSubPackage(r.st, r.info)
      root == SplitRoot(r.info)
  IN /\ deepListDir(r.st.fs, root) # {}
     /\ \A f \in deepListDir(r.st.fs, root) :
          LET dest == r.info.packageDir \o Rel(base, f)
          IN /\ dest \in DOMAIN after.fs
             /\ after.fs[dest] = ValidLines(r.st.fs[f])
     /\ deepListDir(after.fs, root) = {}
     /\ r.info.packageDir \in after.seenSet

\* C16 as stated: a relocation writes each file of the split root to
\* targetPackageDir at the file's path relative to the split root, then
\* deletes the split root and adds targetPackageDir to seenSet.
C16_AsStated ==
  \A r \in Relocating : RelocatedRelativeTo(r, SplitRoot(r.info))

\* C16 amended: the same, with the file's path taken relative to the split
\* entry directory gameJSDir, so that the name of the split root stays the
\* first segment of the path under targetPackageDir.
C16_RelocatedUnderEntryDir ==
  \A r \in Relocating : RelocatedRelativeTo(r, r.info.gameJSDir)

\* a relocation has run: the split entry script is under the target, with
\* the split root's name kept, and no longer under the unpack directory
C16_Witness ==
  /\ phase = "running" /\ Count("realigned") = 1
  /\ \E t \in Targets :
       /\ EvArgs("realigned") = <<DirName(t)>>
       /\ t \in seenSet
       /\ (t \o SplitEntry) \in DOMAIN fs
       /\ fs[t \o SplitEntry] = <<"split">>
  /\ \A d \in {<<"sub1">>, <<"sub2">>} : (d \o SplitEntry) \notin DOMAIN fs

(*************************** C17 *******************************************)
Truthy(s) == SelectSeq(s, LAMBDA n : ~Falsy(n))

\* C17: the processed hook is only called with a candidate that was popped
\* and handed to the decoder and was not announced before, never with null,
\* for every list the beforeUnpack transform may return; a list with an
\* empty-string entry still has every entry decoded before completed fires
\* with true.
C17_AsStated ==
  (Started /\ RootFound) =>
    /\ \A j \in Idx("processed") : log[j].arg # Null
    /\ IsPrefixSeq(EvArgs("processed"), Decoded)
    /\ (phase = "finished" /\ EvArgs("completed") = <<"true">>) =>
         Decoded = Reverse(Truthy(Queue))

(*************************** C18 *******************************************)
\* the requests whose split entry script is not at its resolved path
MissingScript ==
  {r \in RequestStates : ~existsSync(r.st.fs, r.info.gameJSDir \o r.info.gameJS)}
\* the request reported at k found no entry script and its target was not
\* seen: the processed hook that follows neither relocated nor skipped
NoOpAt(k) ==
  /\ k \in Idx("subPackageInfo, no script")
  /\ k + 1 \in Idx("processed")
  /\ k + 2 \in DOMAIN log
  /\ log[k + 2].ev \notin {"realigned", "already processed"}

\* the no-op itself: a request without entry script leaves the files and
\* seenSet as they are, and the hook clears the request, script or no script
MissingScriptNoOp ==
  /\ \A r \in MissingScript :
       LET after == processed(r.st, r.st.processedName)
       IN /\ after.fs = r.st.fs
          /\ after.seenSet = r.st.seenSet
          /\ after.subPackageInfo = NoInfo
  /\ \A r \in RequestStates : processed(r.st, r.st.processedName).subPackageInfo = NoInfo
  /\ inflight # <<>> => subPackageInfo = NoInfo

\* after a no-op for a target, the next request for that target that comes
\* with its entry script is relocated
LaterRequestRelocated ==
  \A k \in DOMAIN log :
    NoOpAt(k) =>
      \A m \in Idx("subPackageInfo") :
        (/\ m > k /\ log[m].arg = log[k].arg
         /\ m + 2 \in DOMAIN log
         /\ ~\E i \in Idx("realigned") : k < i /\ i < m /\ log[i].arg = log[k].arg)
        => log[m + 2].ev = "realigned"

\* C18: a request whose split entry script does not exist makes
\* moveSubPackage a no-op (nothing relocated, the split root not deleted, the
\* target not added to seenSet), so that a later request for the same target
\* whose entry script exists is still relocated; the request is cleared after
\* the hook in either case.
C18_AsStated == MissingScriptNoOp /\ LaterRequestRelocated

(*************************** C19 *******************************************)
\* The decoder's two steps as they show in inflight: the archive it accepted
\* goes on to run (DecoderBegin), the archive that runs leaves and the
\* continuation either hands over the next one or none (DecoderFinish).
\* While a decode is in flight these are the only steps of Spec, and one of
\* them is enabled.
DecoderCallsHook ==
  /\ inflight # <<>> /\ inflight[1].stage = "accepted"
  /\ inflight' = <<[inflight[1] EXCEPT !.stage = "running"]>>
DecoderContinues ==
  /\ inflight # <<>> /\ inflight[1].stage = "running"
  /\ inflight' \in {<<>>} \cup {<<[name |-> n, stage |-> "accepted"]>> :
                                  n \in DirEntries \cup TransformNames}

\* the decoder, once called, goes on and invokes its continuation
FairSpec == Spec /\ WF_inflight(DecoderCallsHook) /\ WF_inflight(DecoderContinues)

\* a step of a call in which the decode in flight ends and its continuation,
\* doNext, runs
ContinuationStep ==
  /\ inflight # <<>> /\ inflight[1].stage = "running"
  /\ inflight' = <<>> \/ inflight'[1].stage = "accepted"
CandidatesRun == Started /\ RootFound /\ Len(Queue) >= 1 /\ ArchivePathsOnly

\* what holds in every state of a run over N >= 1 candidates
StepsBounded ==
  CandidatesRun =>
    /\ Len(filteredPackages) + Count("doFile") = Len(Queue)
    /\ inflight # <<>> => (phase = "running" /\ Count("completed") = 0)
    /\ phase = "running" => Len(inflight) = 1
    /\ phase = "finished" =>
         /\ Count("doFile") = Len(Queue)
         /\ Count("completed") = 1
         /\ filteredPackages = <<>> /\ inflight = <<>>

\* what holds of every step
StepsShrink ==
  /\ calls' = calls =>
       \* the pipeline moves only when the decoder invokes the continuation:
       \* until then nothing is decoded and completed does not fire
       /\ ~ContinuationStep =>
            /\ filteredPackages' = filteredPackages
            /\ Count("doFile")' = Count("doFile")
            /\ Count("completed")' = Count("completed")
       \* each entry of doNext takes exactly one candidate, while there is one
       /\ (CandidatesRun /\ ContinuationStep /\ filteredPackages # <<>>) =>
            /\ filteredPackages' = SubSeq(filteredPackages, 1, Len(filteredPackages) - 1)
            /\ Count("doFile")' = Count("doFile") + 1
  \* after completed, doNext is not entered again: only a new call follows
  /\ phase = "finished" => calls' = calls + 1

\* C19: with a decoder that invokes its continuation once for every call, a
\* run over N >= 1 candidates ends: every step takes exactly one candidate
\* from the queue, the decoder is called exactly N times, completed is
\* eventually invoked and doNext is not entered after it. As long as the
\* decoder has not invoked the continuation, completed does not fire and no
\* further candidate is decoded.
C19_Terminates ==
  /\ []StepsBounded
  /\ [][StepsShrink]_vars
  /\ (phase = "running") ~> (phase = "finished" /\ Count("completed") = 1)

C19_Witness ==
  /\ CandidatesRun /\ Len(Queue) = 3
  /\ phase = "finished"
  /\ Count("doFile") = 3 /\ EvArgs("completed") = <<"true">>

(*************************** C20 *******************************************)
\* C20: in one call of unpackWxapkg moveSubPackage skips a request as
\* 'already processed' only after a realignment for the same target has
\* completed in that call, whatever the order of the main package and the
\* subpackages, also for a target equal to the main package path: every
\* request with its entry script on disk and no earlier realignment of its
\* target is relocated.
C20_AsStated ==
  ViaUnpackWxapkg =>
    /\ \A j \in Idx("already processed") :
         \E i \in Idx("realigned") : i < j /\ log[i].arg = log[j].arg
    /\ \A m \in Idx("subPackageInfo") :
         (/\ m + 2 \in DOMAIN log
          /\ ~\E i \in Idx("realigned") : i < m /\ log[i].arg = log[m].arg)
         => log[m + 2].ev = "realigned"

====
